---------------------------- MODULE Spec2Model ----------------------------
(***************************************************************************)
(* EDDM, the Early Drift Detection Method of river/drift/eddm.py.          *)
(*                                                                         *)
(* The detector's floating-point fields are modelled as exact real         *)
(* numbers.  m_mean and m_std_temp are rationals <<numerator,              *)
(* denominator>>; std, m2s and m_m2s_max, which involve math.sqrt, are     *)
(* numbers of the form  rat + coef * sqrt(rad)  with rat and coef rational *)
(* and rad a natural number.  Every comparison of the code (m2s >          *)
(* m_m2s_max, p < outcontrol, p < warning) is decided exactly on these     *)
(* representations with integer arithmetic.                                *)
(***************************************************************************)
EXTENDS Integers, Sequences, FiniteSets, TLC

VARIABLES
    min_num_instances,   \* constructor parameter
    warning,             \* constructor parameter warning_level (rational)
    outcontrol,          \* constructor parameter out_control_level (rational)
    m_n, m_num_errors, m_d, m_lastd,
    m_mean, m_std_temp, m_m2s_max, estimation,
    delay,               \* <<>> is None, <<0>> is 0
    in_concept_change,   \* self._in_concept_change
    in_warning_zone,     \* self._in_warning_zone
    raised,              \* exception raised by the last call, "none" if it returned
    op,                  \* last operation: "init", "update" or "reset"
    value,               \* argument of the last update call
    ret,                 \* tuple returned by the last update call, <<>> if none yet
    prev_ret,            \* history: ret as it was before the last update call
    only_zeros,          \* history: every call since construction was update(0)
    only_ones,           \* history: every call of the epoch was update(1)
    after_drift,         \* history: the epoch began with the reset that follows a drift
    branch,              \* history: the path the last update call took
    gap,                 \* history: update calls of the epoch since its last error
    max_all,             \* history: largest m2s computed in the epoch
    max_cmp              \* history: largest m2s computed in the epoch with
                         \* n >= min_num_instances

vars == <<min_num_instances, warning, outcontrol, m_n, m_num_errors, m_d,
          m_lastd, m_mean, m_std_temp, m_m2s_max, estimation, delay,
          in_concept_change, in_warning_zone, raised, op, value, ret,
          prev_ret, only_zeros, only_ones, after_drift, branch, gap,
          max_all, max_cmp>>

-----------------------------------------------------------------------------
(* Bounds of the exploration. *)

\* update is not called once m_n has reached MaxN in the current epoch
MaxN == 38

\* at most MaxZeros non-error observations are fed in one epoch
MaxZeros == 3

-----------------------------------------------------------------------------
(* Program constants and inputs. *)

\* self.m_min_num_errors
m_min_num_errors == 30

\* values of min_num_instances the detector is constructed with (30 is the default)
MinNumInstancesChoices == {3, 30, 35}

\* default warning_level 0.95 and out_control_level 0.9
WarningLevelDefault == <<19, 20>>
OutControlLevelDefault == <<9, 10>>

\* an out_control_level that a reachable ratio p equals exactly
OutControlLevelTie == <<13, 17>>

\* constructor arguments <<min_num_instances, warning_level, out_control_level>>
\* within their documented domains
ValidParamChoices ==
    {<<mni, WarningLevelDefault, OutControlLevelDefault>> :
         mni \in MinNumInstancesChoices}
    \cup {<<3, WarningLevelDefault, OutControlLevelTie>>}

\* constructor arguments outside their domains: a non-positive
\* min_num_instances, a warning_level above 1, and an out_control_level that
\* is not below the warning_level
InvalidParamChoices ==
    {<<0, WarningLevelDefault, OutControlLevelDefault>>,
     <<3, <<3, 2>>, OutControlLevelDefault>>,
     <<3, OutControlLevelDefault, WarningLevelDefault>>}

\* arguments of update: 1 is an error, 0 is a correct prediction, 2 is out of domain
Values == {0, 1, 2}

-----------------------------------------------------------------------------
(* Exact arithmetic. *)

Abs(x) == IF x < 0 THEN -x ELSE x

Sgn(x) == IF x > 0 THEN 1 ELSE IF x < 0 THEN -1 ELSE 0

RECURSIVE GCD(_, _)
GCD(a, b) == IF b = 0 THEN a ELSE GCD(b, a % b)

LCM(a, b) == (a \div GCD(a, b)) * b

\* the rational n/d (d > 0) in lowest terms
RNorm(n, d) == LET g == GCD(Abs(n), d) IN <<n \div g, d \div g>>

RInt(i) == <<i, 1>>
RAdd(x, y) == RNorm(x[1] * y[2] + y[1] * x[2], x[2] * y[2])
RSub(x, y) == RNorm(x[1] * y[2] - y[1] * x[2], x[2] * y[2])
RMul(x, y) == RNorm(x[1] * y[1], x[2] * y[2])
\* x / k for an integer k > 0
RDivInt(x, k) == RNorm(x[1], x[2] * k)
RSgn(x) == Sgn(x[1])

\* floor of the square root of a natural number
RECURSIVE IsqrtBetween(_, _, _)
IsqrtBetween(u, lo, hi) ==
    IF lo = hi THEN lo
    ELSE LET mid == (lo + hi + 1) \div 2
         IN IF mid * mid <= u THEN IsqrtBetween(u, mid, hi)
                              ELSE IsqrtBetween(u, lo, mid - 1)

Isqrt(u) == IsqrtBetween(u, 0, IF u < 46340 THEN u ELSE 46340)

\* sign of sqrt(u) - R/P for a non-square u, R >= 0, P > 0, by comparing the
\* continued fractions of (sqrt(u) + m)/dd and R/P term by term
RECURSIVE CmpSqrtRat(_, _, _, _, _, _, _)
CmpSqrtRat(u, s, m, dd, R, P, par) ==
    LET a == (s + m) \div dd
        b == R \div P
        rem == R - b * P
        m2 == a * dd - m
    IN IF a # b THEN par * Sgn(a - b)
       ELSE IF rem = 0 THEN par
       ELSE CmpSqrtRat(u, s, m2, (u - m2 * m2) \div dd, P, rem, -par)

\* sign of R + P * sqrt(u)
SgnRP(R, P, u) ==
    IF u = 0 \/ P = 0 THEN Sgn(R)
    ELSE LET s == Isqrt(u)
         IN IF s * s = u THEN Sgn(R + P * s)
            ELSE IF R >= 0 /\ P > 0 THEN 1
            ELSE IF R <= 0 /\ P < 0 THEN -1
            ELSE IF P > 0 THEN CmpSqrtRat(u, s, 0, 1, -R, P, 1)
            ELSE -CmpSqrtRat(u, s, 0, 1, R, -P, 1)

\* sign of X + B * sqrt(u) - D * sqrt(v), for B >= 0 and D >= 0
SgnSurd(X, B, u, D, v) ==
    LET sA == SgnRP(X, B, u)
    IN IF sA < 0 THEN -1
       ELSE IF D = 0 \/ v = 0 THEN sA
       ELSE SgnRP(X * X + B * B * u - D * D * v, 2 * X * B, u)

-----------------------------------------------------------------------------
(* Real numbers of the form rat + coef * sqrt(rad). *)

Zero == [rat |-> RInt(0), coef |-> RInt(0), rad |-> 0]

\* math.sqrt(x / k) for a rational x >= 0 and an integer k > 0, computed as
\* sqrt(x * k) / k
SqrtQuot(x, k) ==
    LET r == RMul(x, RInt(k))
    IN IF r[1] = 0 THEN Zero
       ELSE [rat |-> RInt(0), coef |-> RNorm(1, r[2] * k), rad |-> r[1] * r[2]]

\* mean + 2 * std
M2s(mean, std) ==
    [rat |-> mean, coef |-> RMul(RInt(2), std.coef), rad |-> std.rad]

\* sign of x - c * y, for reals x and y and a rational c >= 0
SgnDiff(x, c, y) ==
    LET yr == RMul(c, y.rat)
        yc == RMul(c, y.coef)
        L  == LCM(LCM(x.rat[2], x.coef[2]), LCM(yr[2], yc[2]))
        X0 == x.rat[1] * (L \div x.rat[2]) - yr[1] * (L \div yr[2])
        B0 == x.coef[1] * (L \div x.coef[2])
        D0 == yc[1] * (L \div yc[2])
        g  == GCD(GCD(Abs(X0), B0), D0)
    IN IF g = 0 THEN 0
       ELSE SgnSurd(X0 \div g, B0 \div g, x.rad, D0 \div g, y.rad)

SgnReal(x) == SgnDiff(x, RInt(1), Zero)

\* the comparison with the high-water mark flipped
Exceeds_Flipped(m2s, max) == SgnDiff(m2s, RInt(1), max) < 0

\* m2s > self.m_m2s_max
Exceeds(m2s, max) == SgnDiff(m2s, RInt(1), max) > 0

\* the ratio compared with <= instead of <
RatioLess_NonStrict(m2s, max, level) ==
    IF SgnReal(max) > 0 THEN SgnDiff(m2s, level, max) <= 0
                        ELSE SgnDiff(m2s, level, max) >= 0

\* p < level, where p = m2s / max and max # 0
RatioLess(m2s, max, level) ==
    IF SgnReal(max) > 0 THEN SgnDiff(m2s, level, max) < 0
                        ELSE SgnDiff(m2s, level, max) > 0

-----------------------------------------------------------------------------
(* The detector. *)

self ==
    [min_num_instances |-> min_num_instances, warning |-> warning,
     outcontrol |-> outcontrol, m_n |-> m_n, m_num_errors |-> m_num_errors,
     m_d |-> m_d, m_lastd |-> m_lastd, m_mean |-> m_mean,
     m_std_temp |-> m_std_temp, m_m2s_max |-> m_m2s_max,
     estimation |-> estimation, delay |-> delay,
     in_concept_change |-> in_concept_change,
     in_warning_zone |-> in_warning_zone, raised |-> raised, ret |-> ret]

Assign(s) ==
    /\ min_num_instances' = s.min_num_instances
    /\ warning' = s.warning
    /\ outcontrol' = s.outcontrol
    /\ m_n' = s.m_n
    /\ m_num_errors' = s.m_num_errors
    /\ m_d' = s.m_d
    /\ m_lastd' = s.m_lastd
    /\ m_mean' = s.m_mean
    /\ m_std_temp' = s.m_std_temp
    /\ m_m2s_max' = s.m_m2s_max
    /\ estimation' = s.estimation
    /\ delay' = s.delay
    /\ in_concept_change' = s.in_concept_change
    /\ in_warning_zone' = s.in_warning_zone
    /\ raised' = s.raised
    /\ ret' = s.ret

\* DriftDetector.reset of river.base: clears the drift flag and leaves the
\* warning flag alone
BaseReset(s) == [s EXCEPT !.in_concept_change = FALSE]

\* a reset that sets n to 0 instead of 1
ResetState_NZero(s) ==
    [BaseReset(s) EXCEPT !.m_n = 0, !.m_num_errors = 0, !.m_d = 0,
                         !.m_lastd = 0, !.m_mean = RInt(0),
                         !.m_std_temp = RInt(0), !.m_m2s_max = Zero,
                         !.estimation = RInt(0)]

\* a reset that shifts d into last_d instead of zeroing last_d
ResetState_ShiftsLastd(s) ==
    [BaseReset(s) EXCEPT !.m_n = 1, !.m_num_errors = 0, !.m_d = 0,
                         !.m_lastd = s.m_d, !.m_mean = RInt(0),
                         !.m_std_temp = RInt(0), !.m_m2s_max = Zero,
                         !.estimation = RInt(0)]

\* EDDM.reset
ResetState(s) ==
    [BaseReset(s) EXCEPT !.m_n = 1, !.m_num_errors = 0, !.m_d = 0,
                         !.m_lastd = 0, !.m_mean = RInt(0),
                         !.m_std_temp = RInt(0), !.m_m2s_max = Zero,
                         !.estimation = RInt(0)]

\* EDDM.__init__
Constructed(mni, wl, ocl) ==
    ResetState([min_num_instances |-> mni, warning |-> wl, outcontrol |-> ocl,
                m_n |-> 0, m_num_errors |-> 0, m_d |-> 0, m_lastd |-> 0,
                m_mean |-> RInt(0), m_std_temp |-> RInt(0), m_m2s_max |-> Zero,
                estimation |-> RInt(0), delay |-> <<>>,
                in_concept_change |-> FALSE, in_warning_zone |-> FALSE,
                raised |-> "none", ret |-> <<>>])

\* return self._in_concept_change, self._in_warning_zone
Return(s) ==
    [s EXCEPT !.ret = <<s.in_concept_change, s.in_warning_zone>>,
              !.raised = "none"]

\* the call ends in an exception and returns nothing
Raise(s, e) == [s EXCEPT !.raised = e]

\* the encoding inverted: 0 taken as the error
IsError_Inverted(v) == v = 0

\* value == 1.0
IsError(v) == v = 1

\* the early return on too few instances left out
BelowMinInstances_Omitted(n, mni) == FALSE

\* the instance count compared with <= instead of <
BelowMinInstances_OffByOne(n, mni) == n <= mni

\* self.m_n < self.min_num_instances
BelowMinInstances(n, mni) == n < mni

\* the error count compared with >= instead of >
EnoughErrors_AtLeast(k) == k >= m_min_num_errors

\* self.m_num_errors > self.m_min_num_errors
EnoughErrors(k) == k > m_min_num_errors

\* the warning test written with "if" instead of "elif"
Decide_IfNotElif(s, m2s) ==
    LET dr == EnoughErrors(s.m_num_errors)
                 /\ RatioLess(m2s, s.m_m2s_max, s.outcontrol)
        wn == EnoughErrors(s.m_num_errors)
                 /\ RatioLess(m2s, s.m_m2s_max, s.warning)
    IN [s EXCEPT !.in_concept_change = dr \/ s.in_concept_change,
                 !.in_warning_zone = wn]

\* the detector reset as soon as drift is declared
Decide_EagerReset(s, m2s) ==
    IF EnoughErrors(s.m_num_errors) /\ RatioLess(m2s, s.m_m2s_max, s.outcontrol)
    THEN [ResetState(s) EXCEPT !.in_concept_change = TRUE]
    ELSE IF EnoughErrors(s.m_num_errors) /\ RatioLess(m2s, s.m_m2s_max, s.warning)
    THEN [s EXCEPT !.in_warning_zone = TRUE]
    ELSE [s EXCEPT !.in_warning_zone = FALSE]

\* the threshold comparison on p = m2s / self.m_m2s_max
Decide(s, m2s) ==
    IF EnoughErrors(s.m_num_errors) /\ RatioLess(m2s, s.m_m2s_max, s.outcontrol)
    THEN [s EXCEPT !.in_concept_change = TRUE]
    ELSE IF EnoughErrors(s.m_num_errors) /\ RatioLess(m2s, s.m_m2s_max, s.warning)
    THEN [s EXCEPT !.in_warning_zone = TRUE]
    ELSE [s EXCEPT !.in_warning_zone = FALSE]

\* m_m2s_max tracking the latest m2s instead of the largest
Compare_TracksLatest(s, m2s) ==
    IF SgnDiff(m2s, RInt(1), s.m_m2s_max) # 0
    THEN Return([s EXCEPT !.m_m2s_max = m2s])
    ELSE IF SgnReal(s.m_m2s_max) = 0 THEN Raise(s, "ZeroDivisionError")
    ELSE Return(Decide(s, m2s))

\* the high-water mark update and the ratio test
Compare(s, m2s) ==
    IF Exceeds(m2s, s.m_m2s_max) THEN Return([s EXCEPT !.m_m2s_max = m2s])
    ELSE IF SgnReal(s.m_m2s_max) = 0 THEN Raise(s, "ZeroDivisionError")
    ELSE Return(Decide(s, m2s))

\* the error branch without the clearing of the warning flag
ErrorBranch_KeepsWarning(s) ==
    LET k == s.m_num_errors + 1
        d == s.m_n - 1
        distance == d - s.m_d
        old_mean == s.m_mean
        mean == RAdd(old_mean, RDivInt(RSub(RInt(distance), old_mean), k))
        std_temp == RAdd(s.m_std_temp,
                         RMul(RSub(RInt(distance), mean),
                              RSub(RInt(distance), old_mean)))
        t == [s EXCEPT !.delay = <<0>>,
                       !.m_num_errors = k, !.m_lastd = s.m_d, !.m_d = d,
                       !.m_mean = mean, !.estimation = mean,
                       !.m_std_temp = std_temp]
    IN IF RSgn(std_temp) < 0 THEN Raise(t, "ValueError")
       ELSE IF BelowMinInstances(t.m_n, t.min_num_instances) THEN Return(t)
       ELSE Compare(t, M2s(mean, SqrtQuot(std_temp, k)))

\* the update of m_std_temp with the sign of one factor slipped
ErrorBranch_WelfordSignSlip(s) ==
    LET k == s.m_num_errors + 1
        d == s.m_n - 1
        distance == d - s.m_d
        old_mean == s.m_mean
        mean == RAdd(old_mean, RDivInt(RSub(RInt(distance), old_mean), k))
        std_temp == RAdd(s.m_std_temp,
                         RMul(RSub(mean, RInt(distance)),
                              RSub(RInt(distance), old_mean)))
        t == [s EXCEPT !.in_warning_zone = FALSE, !.delay = <<0>>,
                       !.m_num_errors = k, !.m_lastd = s.m_d, !.m_d = d,
                       !.m_mean = mean, !.estimation = mean,
                       !.m_std_temp = std_temp]
    IN IF RSgn(std_temp) < 0 THEN Raise(t, "ValueError")
       ELSE IF BelowMinInstances(t.m_n, t.min_num_instances) THEN Return(t)
       ELSE Compare(t, M2s(mean, SqrtQuot(std_temp, k)))

\* estimation copied from the mean before its update
ErrorBranch_StaleEstimation(s) ==
    LET k == s.m_num_errors + 1
        d == s.m_n - 1
        distance == d - s.m_d
        old_mean == s.m_mean
        mean == RAdd(old_mean, RDivInt(RSub(RInt(distance), old_mean), k))
        std_temp == RAdd(s.m_std_temp,
                         RMul(RSub(RInt(distance), mean),
                              RSub(RInt(distance), old_mean)))
        t == [s EXCEPT !.in_warning_zone = FALSE, !.delay = <<0>>,
                       !.m_num_errors = k, !.m_lastd = s.m_d, !.m_d = d,
                       !.m_mean = mean, !.estimation = old_mean,
                       !.m_std_temp = std_temp]
    IN IF RSgn(std_temp) < 0 THEN Raise(t, "ValueError")
       ELSE IF BelowMinInstances(t.m_n, t.min_num_instances) THEN Return(t)
       ELSE Compare(t, M2s(mean, SqrtQuot(std_temp, k)))

\* m_lastd left alone, the distance taken from it
ErrorBranch_LastdNotShifted(s) ==
    LET k == s.m_num_errors + 1
        d == s.m_n - 1
        distance == d - s.m_lastd
        old_mean == s.m_mean
        mean == RAdd(old_mean, RDivInt(RSub(RInt(distance), old_mean), k))
        std_temp == RAdd(s.m_std_temp,
                         RMul(RSub(RInt(distance), mean),
                              RSub(RInt(distance), old_mean)))
        t == [s EXCEPT !.in_warning_zone = FALSE, !.delay = <<0>>,
                       !.m_num_errors = k, !.m_lastd = s.m_lastd, !.m_d = d,
                       !.m_mean = mean, !.estimation = mean,
                       !.m_std_temp = std_temp]
    IN IF RSgn(std_temp) < 0 THEN Raise(t, "ValueError")
       ELSE IF BelowMinInstances(t.m_n, t.min_num_instances) THEN Return(t)
       ELSE Compare(t, M2s(mean, SqrtQuot(std_temp, k)))

\* d taken as n instead of n - 1
ErrorBranch_DOffByOne(s) ==
    LET k == s.m_num_errors + 1
        d == s.m_n
        distance == d - s.m_d
        old_mean == s.m_mean
        mean == RAdd(old_mean, RDivInt(RSub(RInt(distance), old_mean), k))
        std_temp == RAdd(s.m_std_temp,
                         RMul(RSub(RInt(distance), mean),
                              RSub(RInt(distance), old_mean)))
        t == [s EXCEPT !.in_warning_zone = FALSE, !.delay = <<0>>,
                       !.m_num_errors = k, !.m_lastd = s.m_d, !.m_d = d,
                       !.m_mean = mean, !.estimation = mean,
                       !.m_std_temp = std_temp]
    IN IF RSgn(std_temp) < 0 THEN Raise(t, "ValueError")
       ELSE IF BelowMinInstances(t.m_n, t.min_num_instances) THEN Return(t)
       ELSE Compare(t, M2s(mean, SqrtQuot(std_temp, k)))

\* the branch of update taken when value == 1.0
ErrorBranch(s) ==
    LET k == s.m_num_errors + 1
        d == s.m_n - 1
        distance == d - s.m_d
        old_mean == s.m_mean
        mean == RAdd(old_mean, RDivInt(RSub(RInt(distance), old_mean), k))
        std_temp == RAdd(s.m_std_temp,
                         RMul(RSub(RInt(distance), mean),
                              RSub(RInt(distance), old_mean)))
        t == [s EXCEPT !.in_warning_zone = FALSE, !.delay = <<0>>,
                       !.m_num_errors = k, !.m_lastd = s.m_d, !.m_d = d,
                       !.m_mean = mean, !.estimation = mean,
                       !.m_std_temp = std_temp]
    IN IF RSgn(std_temp) < 0 THEN Raise(t, "ValueError")
       ELSE IF BelowMinInstances(t.m_n, t.min_num_instances) THEN Return(t)
       ELSE Compare(t, M2s(mean, SqrtQuot(std_temp, k)))

\* no reset at the start of the call after a drift
DeferredReset_Never(s) == s

\* the reset that update performs first when the previous call signalled drift
DeferredReset(s) == IF s.in_concept_change THEN ResetState(s) ELSE s

\* the warning flag dropped by a non-error observation
UpdateState_NonErrorDropsWarning(s, v) ==
    LET r == DeferredReset(s)
        t == [r EXCEPT !.in_concept_change = FALSE, !.m_n = r.m_n + 1]
    IN IF IsError(v) THEN ErrorBranch(t)
       ELSE Return([t EXCEPT !.in_warning_zone = FALSE])

\* the warning flag cleared at the start of every call
UpdateState_ClearsWarningFirst(s, v) ==
    LET r == DeferredReset(s)
        t == [r EXCEPT !.in_concept_change = FALSE, !.m_n = r.m_n + 1,
                       !.in_warning_zone = FALSE]
    IN IF IsError(v) THEN ErrorBranch(t) ELSE Return(t)

\* EDDM.update
UpdateState(s, v) ==
    LET r == DeferredReset(s)
        t == [r EXCEPT !.in_concept_change = FALSE, !.m_n = r.m_n + 1]
    IN IF IsError(v) THEN ErrorBranch(t) ELSE Return(t)

-----------------------------------------------------------------------------
(* Behaviours. *)

\* m2s as the last error observation of the epoch computed it
CurM2s == M2s(m_mean, SqrtQuot(m_std_temp, m_num_errors))

\* the larger of two reals
RealMax(a, b) == IF SgnDiff(b, RInt(1), a) > 0 THEN b ELSE a

\* the detector as constructed from one of the argument triples of params
InitWith(params) ==
    /\ \E a \in params :
           LET s == Constructed(a[1], a[2], a[3])
           IN /\ min_num_instances = s.min_num_instances
              /\ warning = s.warning
              /\ outcontrol = s.outcontrol
              /\ m_n = s.m_n
              /\ m_num_errors = s.m_num_errors
              /\ m_d = s.m_d
              /\ m_lastd = s.m_lastd
              /\ m_mean = s.m_mean
              /\ m_std_temp = s.m_std_temp
              /\ m_m2s_max = s.m_m2s_max
              /\ estimation = s.estimation
              /\ delay = s.delay
              /\ in_concept_change = s.in_concept_change
              /\ in_warning_zone = s.in_warning_zone
              /\ raised = s.raised
              /\ ret = s.ret
    /\ op = "init"
    /\ value = 0
    /\ prev_ret = <<>>
    /\ only_zeros = TRUE
    /\ only_ones = TRUE
    /\ after_drift = FALSE
    /\ branch = "none"
    /\ gap = 0
    /\ max_all = Zero
    /\ max_cmp = Zero

Init == InitWith(ValidParamChoices)

\* construction with arguments inside or outside their domains
InitAny == InitWith(ValidParamChoices \cup InvalidParamChoices)

\* the history of an update call with argument v that leaves the detector
\* as t, read off the state before the call and t
UpdateHistory(v, t) ==
    LET fresh == in_concept_change
        sound == t.raised = "none" /\ RSgn(t.m_std_temp) >= 0
        m2s == M2s(t.m_mean, SqrtQuot(t.m_std_temp, t.m_num_errors))
        pre_max == IF fresh THEN Zero ELSE m_m2s_max
        pre_all == IF fresh THEN Zero ELSE max_all
        pre_cmp == IF fresh THEN Zero ELSE max_cmp
        pre_gap == IF fresh THEN 0 ELSE gap
    IN /\ only_ones' = ((fresh \/ only_ones) /\ v = 1)
       /\ after_drift' = (fresh \/ after_drift)
       /\ gap' = IF v = 1 THEN 0 ELSE pre_gap + 1
       /\ branch' = IF v # 1 THEN "no_error"
                     ELSE IF ~sound THEN "raised"
                     ELSE IF t.m_n < t.min_num_instances THEN "below_min"
                     ELSE IF SgnDiff(m2s, RInt(1), pre_max) > 0 THEN "new_max"
                     ELSE "ratio"
       /\ max_all' = IF v = 1 /\ sound THEN RealMax(pre_all, m2s) ELSE pre_all
       /\ max_cmp' = IF v = 1 /\ sound /\ t.m_n >= t.min_num_instances
                      THEN RealMax(pre_cmp, m2s)
                      ELSE pre_cmp

Update(v) ==
    /\ LET r == DeferredReset(self)
       IN /\ r.m_n < MaxN
          /\ IsError(v) \/ r.m_n - 1 - r.m_num_errors < MaxZeros
    /\ Assign(UpdateState(self, v))
    /\ op' = "update"
    /\ value' = v
    /\ prev_ret' = ret
    /\ only_zeros' = (only_zeros /\ v = 0)
    /\ UpdateHistory(v, UpdateState(self, v))

Reset ==
    /\ Assign(ResetState(self))
    /\ op' = "reset"
    /\ only_zeros' = FALSE
    /\ only_ones' = TRUE
    /\ after_drift' = FALSE
    /\ gap' = 0
    /\ max_all' = Zero
    /\ max_cmp' = Zero
    /\ UNCHANGED <<value, prev_ret, branch>>

Next == (\E v \in Values : Update(v)) \/ Reset

Spec == Init /\ [][Next]_vars

\* the detector driven by update calls only
UpdateNext == \E v \in Values : Update(v)

SpecUpdateOnly == Init /\ [][UpdateNext]_vars

\* the detector constructed with any arguments
SpecAnyParams == InitAny /\ [][Next]_vars

-----------------------------------------------------------------------------
(* Properties. *)

\* the last call was an update that returned
Returned == op = "update" /\ raised = "none"

\* the last call was an error observation that went through the comparison
\* with m_m2s_max
Compared ==
    /\ Returned
    /\ value = 1
    /\ m_n >= min_num_instances

\* C1: an update call never returns drift = true together with warning = true.
C1_DriftExcludesWarning ==
    Returned => ~(ret[1] /\ ret[2])

\* an update call has returned drift = true right after a call that returned
\* warning = true
C1_Witness ==
    /\ Returned
    /\ ret = <<TRUE, FALSE>>
    /\ prev_ret = <<FALSE, TRUE>>

\* C2: the update call that follows a call which returned drift = true resets
\* first, so it ends with n = 2 and with num_errors = 1 if its value is 1,
\* else 0.
C2_NextCallStartsFromReset ==
    [][(ret # <<>> /\ ret[1] /\ op' = "update")
          => /\ m_n' = 2
             /\ m_num_errors' = (IF value' = 1 THEN 1 ELSE 0)]_vars

\* the call after a drift has been made, for an error and for a non-error
C2_Witness ==
    /\ Returned
    /\ prev_ret = <<TRUE, FALSE>>
    /\ m_n = 2
    /\ m_num_errors = 1

\* C3: the reset is deferred: the state right after a call that returns
\* drift = true is the state that call computed from the state before it, and
\* the fields are back at their initial values only in the next update call.
C3_ResetIsDeferred ==
    [][/\ (op' = "update" /\ raised' = "none" /\ ret'[1])
            => /\ in_concept_change'
               /\ m_n' = m_n + 1
               /\ m_num_errors' = m_num_errors + 1
               /\ m_lastd' = m_d
               /\ m_d' = m_n
               /\ m_mean' = RAdd(m_mean, RDivInt(RSub(RInt(m_n - m_d), m_mean),
                                                 m_num_errors + 1))
               /\ estimation' = m_mean'
               /\ m_m2s_max' = m_m2s_max
               /\ SgnReal(m_m2s_max') > 0
       /\ (in_concept_change /\ op' = "update")
            => /\ m_n' = 2
               /\ m_lastd' = 0
               /\ m_d' = m_num_errors'
               /\ m_mean' = RInt(m_num_errors')
               /\ estimation' = m_mean'
               /\ m_std_temp' = RInt(0)
       ]_vars

\* a call has just returned drift = true and the fields hold what it computed
C3_Witness ==
    /\ Returned
    /\ ret[1]
    /\ in_concept_change
    /\ m_n > 2
    /\ m_num_errors > m_min_num_errors
    /\ SgnReal(m_m2s_max) > 0

\* C4: a freshly constructed detector fed only zeros returns drift = false and
\* warning = false on every call, and estimation stays 0.0.
C4_AllZeroStream ==
    only_zeros => /\ estimation = RInt(0)
                  /\ raised = "none"
                  /\ op = "update" => ret = <<FALSE, FALSE>>

\* the all-zero stream has been fed as far as the bound allows
C4_Witness ==
    /\ only_zeros
    /\ op = "update"
    /\ m_n = MaxZeros + 1

\* C5: driven by update calls only, a call that ends with n below
\* min_num_instances returns drift = false and warning = false.
C5_QuietBelowMinInstances ==
    (op = "update" /\ m_n < min_num_instances)
        => raised = "none" /\ ret = <<FALSE, FALSE>>

\* an error observation with more than m_min_num_errors errors in the epoch
\* ends with n below min_num_instances
C5_Witness ==
    /\ Returned
    /\ value = 1
    /\ m_num_errors > m_min_num_errors
    /\ m_n < min_num_instances

\* C6: an update call whose value is not 1 returns drift = false and the
\* warning flag that the previous update call returned.
C6_NonErrorKeepsWarning ==
    [][(op' = "update" /\ value' # 1)
          => /\ raised' = "none"
             /\ ~ret'[1]
             /\ ret # <<>> => ret'[2] = ret[2]]_vars

\* a non-error observation has returned warning = true
C6_Witness ==
    /\ Returned
    /\ value # 1
    /\ ret = <<FALSE, TRUE>>
    /\ prev_ret = <<FALSE, TRUE>>

\* C7: an update call that does not perform a reset never lowers m2s_max.
C7_M2sMaxMonotone ==
    [][(op' = "update" /\ ~in_concept_change)
          => SgnDiff(m_m2s_max', RInt(1), m_m2s_max) >= 0]_vars

\* an error observation computed an m2s below m2s_max and m2s_max was kept
C7_Witness ==
    /\ Compared
    /\ SgnDiff(CurM2s, RInt(1), m_m2s_max) < 0

\* C8: no call divides by a zero m2s_max.
C8_NoDivisionByZero ==
    /\ raised # "ZeroDivisionError"
    /\ (Compared /\ ~Exceeds(CurM2s, m_m2s_max)) => SgnReal(m_m2s_max) > 0

\* the ratio was computed on the first comparison after m2s_max left zero
C8_Witness ==
    /\ Compared
    /\ SgnDiff(CurM2s, RInt(1), m_m2s_max) = 0
    /\ m_num_errors = 2

\* C9: reset leaves the fields at the values of a freshly constructed detector
\* and the drift flag cleared.
C9_ResetRestoresInitialValues ==
    op = "reset"
        => /\ m_n = 1
           /\ m_num_errors = 0
           /\ m_d = 0
           /\ m_lastd = 0
           /\ m_mean = RInt(0)
           /\ m_std_temp = RInt(0)
           /\ m_m2s_max = Zero
           /\ estimation = RInt(0)
           /\ ~in_concept_change
           /\ LET c == Constructed(min_num_instances, warning, outcontrol)
              IN <<m_n, m_num_errors, m_d, m_lastd, m_mean, m_std_temp,
                   m_m2s_max, estimation, in_concept_change>>
                 = <<c.m_n, c.m_num_errors, c.m_d, c.m_lastd, c.m_mean,
                     c.m_std_temp, c.m_m2s_max, c.estimation,
                     c.in_concept_change>>

\* reset was called on a detector whose last update returned drift = true
C9_Witness ==
    /\ op = "reset"
    /\ ret = <<TRUE, FALSE>>

\* C10: reset is idempotent: a second reset changes nothing.
C10_ResetIdempotent ==
    /\ ResetState(ResetState(self)) = ResetState(self)
    /\ op = "reset" => ResetState(self) = self

\* reset was called on a detector that had observed errors
C10_Witness ==
    /\ op = "reset"
    /\ delay = <<0>>
    /\ value = 1

\* x < y for rationals
RLess(x, y) == x[1] * y[2] < y[1] * x[2]

\* the constructor arguments are within their documented domains
ParamsValid ==
    /\ min_num_instances > 0
    /\ RLess(RInt(0), warning) /\ RLess(warning, RInt(1))
    /\ RLess(RInt(0), outcontrol) /\ RLess(outcontrol, RInt(1))
    /\ RLess(outcontrol, warning)

\* C11: construction with invalid parameters fails with a configuration
\* error and yields no usable detector.
C11_InvalidParamsRejected ==
    ~ParamsValid => (op = "init" /\ raised # "none")

\* C12 as claimed: m2s_max is the maximum of all the m2s values computed on
\* the error observations of the epoch, those with n < min_num_instances
\* included.
C12_M2sMaxIsEpochMaximum ==
    SgnDiff(m_m2s_max, RInt(1), max_all) = 0

\* C12 as amended: m2s_max is the maximum of the m2s values computed on the
\* error observations of the epoch made with n >= min_num_instances, and 0
\* if there were none; the values computed with n < min_num_instances are
\* not recorded.
C12_M2sMaxIsComparedMaximum ==
    /\ SgnDiff(m_m2s_max, RInt(1), max_cmp) = 0
    /\ m_n < min_num_instances => m_m2s_max = Zero

\* an m2s computed with n < min_num_instances exceeds the m2s_max recorded
\* later in the epoch
C12_Witness ==
    /\ Returned
    /\ SgnReal(m_m2s_max) > 0
    /\ SgnDiff(max_all, RInt(1), m_m2s_max) > 0

\* C13 as claimed: on an error observation that computes p = m2s / m2s_max,
\* drift is returned iff num_errors > 30 and p < out_control_level, warning
\* iff num_errors > 30 and out_control_level <= p < warning_level; and a p
\* below both thresholds always gives drift and never warning.
C13_BelowBothAlwaysDrift ==
    (Returned /\ branch = "ratio")
        => LET enough == m_num_errors > m_min_num_errors
               below_out == SgnDiff(CurM2s, outcontrol, m_m2s_max) < 0
               below_warn == SgnDiff(CurM2s, warning, m_m2s_max) < 0
           IN /\ ret[1] = (enough /\ below_out)
              /\ ret[2] = (enough /\ ~below_out /\ below_warn)
              /\ (below_out /\ below_warn) => ret = <<TRUE, FALSE>>

\* C13 as amended: on an error observation that computes p = m2s / m2s_max,
\* drift is returned iff num_errors > 30 and p < out_control_level, warning
\* iff num_errors > 30 and out_control_level <= p < warning_level; with
\* num_errors > 30 a p below both thresholds gives drift and never warning,
\* with num_errors <= 30 neither flag is returned.
C13_ThresholdDecision ==
    (Returned /\ branch = "ratio")
        => LET enough == m_num_errors > m_min_num_errors
               below_out == SgnDiff(CurM2s, outcontrol, m_m2s_max) < 0
               below_warn == SgnDiff(CurM2s, warning, m_m2s_max) < 0
           IN /\ ret[1] = (enough /\ below_out)
              /\ ret[2] = (enough /\ ~below_out /\ below_warn)
              /\ (enough /\ below_out /\ below_warn) => ret = <<TRUE, FALSE>>
              /\ ~enough => ret = <<FALSE, FALSE>>

\* with enough errors p equals out_control_level exactly: no drift, a warning
C13_Witness ==
    /\ Returned
    /\ branch = "ratio"
    /\ m_num_errors > m_min_num_errors
    /\ SgnDiff(CurM2s, outcontrol, m_m2s_max) = 0
    /\ ret = <<FALSE, TRUE>>

\* C14: an error observation with n >= min_num_instances whose m2s exceeds
\* m2s_max stores m2s in m2s_max and returns drift = false and
\* warning = false, also after a call that returned warning = true.
C14_NewMaximumIsQuiet ==
    (Returned /\ branch = "new_max")
        => /\ m_m2s_max = CurM2s
           /\ ret = <<FALSE, FALSE>>
           /\ ~in_warning_zone

\* a new maximum right after a call that returned warning = true
C14_Witness ==
    /\ Returned
    /\ branch = "new_max"
    /\ prev_ret = <<FALSE, TRUE>>

\* C15: an update call with a value other than 1 that performs no reset adds
\* 1 to n, leaves the drift flag false and changes nothing else.
C15_NonErrorFrame ==
    [][(op' = "update" /\ value' # 1 /\ ~in_concept_change)
          => /\ m_n' = m_n + 1
             /\ ~in_concept_change'
             /\ UNCHANGED <<m_num_errors, m_d, m_lastd, m_mean, m_std_temp,
                            m_m2s_max, estimation, in_warning_zone>>]_vars

\* an out-of-domain value was fed to a detector in the warning zone
C15_Witness ==
    /\ Returned
    /\ value = 2
    /\ in_warning_zone
    /\ m_num_errors > m_min_num_errors

\* C16: mean >= 0, std_temp >= 0 and num_errors <= n in every state.
C16_NonNegativeMoments ==
    /\ RSgn(m_mean) >= 0
    /\ RSgn(m_std_temp) >= 0
    /\ m_num_errors <= m_n

\* distances of different lengths have been observed: std_temp is positive
C16_Witness ==
    /\ Returned
    /\ m_num_errors > m_min_num_errors
    /\ RSgn(m_std_temp) > 0

\* C17: estimation equals mean in every state between calls.
C17_EstimationIsMean ==
    estimation = m_mean

\* an error observation left a mean that is not an integer
C17_Witness ==
    /\ Returned
    /\ value = 1
    /\ m_mean[2] > 1
    /\ estimation = m_mean

\* C18: driven by update calls only, a true drift or warning flag comes with
\* num_errors > 30 and n >= min_num_instances; so none of the 30 calls that
\* follow a drift returns drift or warning.
C18_FlagsNeedEnoughErrors ==
    /\ (in_concept_change \/ in_warning_zone)
          => (m_num_errors > m_min_num_errors /\ m_n >= min_num_instances)
    /\ (op = "update" /\ m_n <= m_min_num_errors + 1)
          => (raised = "none" /\ ret = <<FALSE, FALSE>>)

\* the 30th call after a drift, all 30 of them errors
C18_Witness ==
    /\ Returned
    /\ after_drift
    /\ m_n = m_min_num_errors + 1
    /\ m_num_errors = m_min_num_errors

\* C19: 0 <= last_d <= d <= n - 1 in every state; on an error observation
\* d - last_d is at least 1 and is the number of update calls since the
\* previous error of the epoch, or since the reset; mean >= 1 once
\* num_errors >= 1.
C19_DistanceIsGap ==
    /\ [](/\ 0 <= m_lastd
          /\ m_lastd <= m_d
          /\ m_d <= m_n - 1
          /\ m_num_errors >= 1 => ~RLess(m_mean, RInt(1)))
    /\ [][(op' = "update" /\ value' = 1)
             => /\ m_d' - m_lastd' >= 1
                /\ m_d' - m_lastd'
                     = (IF in_concept_change THEN 0 ELSE gap) + 1]_vars

\* an error observed after MaxZeros non-errors that followed another error
C19_Witness ==
    /\ Returned
    /\ value = 1
    /\ m_lastd > 0
    /\ m_d - m_lastd = MaxZeros + 1

\* the number 1
One == M2s(RInt(1), Zero)

\* C20: with both levels in (0,1), a stream of ones fed to a fresh or freshly
\* reset detector never returns drift or warning: mean stays 1, std_temp 0,
\* m2s_max becomes 1 and the ratio p is exactly 1.
C20_AllOnesStream ==
    (only_ones /\ op = "update" /\ ParamsValid)
        => /\ raised = "none"
           /\ ret = <<FALSE, FALSE>>
           /\ m_d - m_lastd = 1
           /\ m_mean = RInt(1)
           /\ m_std_temp = RInt(0)
           /\ m_n >= min_num_instances => SgnDiff(m_m2s_max, RInt(1), One) = 0
           /\ m_n >= min_num_instances => SgnDiff(CurM2s, RInt(1), m_m2s_max) = 0

\* more than 30 ones in a row after a drift, the ratio computed each time
C20_Witness ==
    /\ only_ones
    /\ after_drift
    /\ Returned
    /\ branch = "ratio"
    /\ m_num_errors > m_min_num_errors

=============================================================================
